---- MODULE Spec2Model ----
(***************************************************************************)
(* Model of src/bitcoin/sha3/src/sha3.js: the state codec (createState,    *)
(* createString, stringToWord, wordToString), the coordinate mangling, the *)
(* theta and rho steps, mod and the rotations.                             *)
(*                                                                         *)
(* A JavaScript string is a sequence of character codes.  A BigInt that is *)
(* not negative is the record [t |-> "bigint", v |-> limbs], limbs being   *)
(* its base-256 digits, least significant first, without leading zero      *)
(* digits (so that equal BigInts are equal values).  The Number 0 of the   *)
(* array initialisers is Num0.  A call either returns a value or throws;   *)
(* it is recorded as [err |-> "none", ...] or [err |-> <the error>, ...].  *)
(***************************************************************************)
EXTENDS Integers, Sequences, FiniteSets, TLC

VARIABLES
  s,             \* the string handed to createState (test: var s)
  a,             \* what createState returned (test: var a)
  newS,          \* what createString returned (test: var newS)
  call,          \* the last call of one of the other exported functions
  currentState,  \* the module variable currentState
  ro_offsets     \* the module variable ro_offsets

vars == <<s, a, newS, call, currentState, ro_offsets>>

\* ------------------------------------------------------------- bounds
MaxStride == 2   \* buffers and words are filled with strides 0..MaxStride
MaxM == 12       \* mod is called with m in -MaxM..MaxM
MaxN == 6        \* mod is called with n in 1..MaxN
MaxRot == 2      \* rot is called with b in 0..MaxRot

\* ------------------------------------------------------- JS values
Num0 == [t |-> "number", v |-> <<>>]

BigInt(limbs) == [t |-> "bigint", v |-> limbs]

RECURSIVE Norm(_)
Norm(q) ==
  IF q = <<>> THEN q
  ELSE IF q[Len(q)] = 0 THEN Norm(SubSeq(q, 1, Len(q) - 1))
  ELSE q

\* digit k (k = 0 the least significant) of the BigInt n
LimbAt(n, k) == IF k < Len(n.v) THEN n.v[k + 1] ELSE 0

\* BigInt(c) of a character code c (0..65535)
BigIntOfNumber(c) == BigInt(Norm(<<c % 256, c \div 256>>))

\* n << BigInt(8)
Shl8(n) == IF n.v = <<>> THEN n ELSE BigInt(<<0>> \o n.v)

\* n >> BigInt(i * 8)
ShrBytes(n, i) == BigInt(SubSeq(n.v, i + 1, Len(n.v)))

RECURSIVE ByteOr(_, _)
ByteOr(p, q) ==
  IF p = 0 THEN q
  ELSE IF q = 0 THEN p
  ELSE (IF p % 2 = 1 \/ q % 2 = 1 THEN 1 ELSE 0) + 2 * ByteOr(p \div 2, q \div 2)

\* x | y
BigOr(x, y) ==
  LET n == IF Len(x.v) >= Len(y.v) THEN Len(x.v) ELSE Len(y.v)
  IN  BigInt(Norm([k \in 1..n |-> ByteOr(LimbAt(x, k - 1), LimbAt(y, k - 1))]))

\* Number(n & BigInt(0xFF))
AndFF(n) == LimbAt(n, 0)

\* str.charCodeAt(i)
charCodeAt(str, i) == str[i + 1]

\* str.slice(b, e)
slice(str, b, e) == SubSeq(str, b + 1, e)

\* ------------------------------------------------------ word codec
\* The variables of a loop are one record l, the loop an operator from
\* the record before an iteration to the value after the last one.
RECURSIVE stringToWordLoop(_, _)
stringToWordLoop(str, l) ==
  IF l.i >= 8 THEN l.ans
  ELSE stringToWordLoop(str,
         [i   |-> l.i + 1,
          ans |-> BigOr(Shl8(l.ans), BigIntOfNumber(charCodeAt(str, l.i)))])

RECURSIVE stringToWordLoop_le(_, _)
stringToWordLoop_le(str, l) ==
  IF l.i >= 8 THEN l.ans
  ELSE stringToWordLoop_le(str,
         [i   |-> l.i + 1,
          ans |-> BigOr(Shl8(l.ans), BigIntOfNumber(charCodeAt(str, 7 - l.i)))])

\* mutant of stringToWord: the characters are read last to first
stringToWord_le(str) == stringToWordLoop_le(str, [i |-> 0, ans |-> BigInt(<<>>)])

stringToWord(str) == stringToWordLoop(str, [i |-> 0, ans |-> BigInt(<<>>)])

RECURSIVE wordToStringLoop(_, _)
wordToStringLoop(n, l) ==
  IF l.i >= 8 THEN l.s
  ELSE wordToStringLoop(n,
         [i |-> l.i + 1, s |-> <<AndFF(ShrBytes(n, l.i))>> \o l.s])

wordToString(n) == wordToStringLoop(n, [i |-> 0, s |-> <<>>])

\* ----------------------------------------------------- state codec
ZeroArray == [x \in 0..4 |-> [y \in 0..4 |-> Num0]]

\* the body of the inner loop for one i and one j: the word that is stored
GroupWord(str, i, j) ==
  LET idx == i * 5 + j
  IN  stringToWord(slice(str, idx * 8, idx * 8 + 8))

\* the inner loop (j = 0..4) for one i: a[j][i] = ...
createStateRow(str, i, acc) ==
  [acc EXCEPT ![0][i] = GroupWord(str, i, 0),
              ![1][i] = GroupWord(str, i, 1),
              ![2][i] = GroupWord(str, i, 2),
              ![3][i] = GroupWord(str, i, 3),
              ![4][i] = GroupWord(str, i, 4)]

RECURSIVE createStateLoop(_, _)
createStateLoop(str, l) ==
  IF l.i >= 5 THEN l.a
  ELSE createStateLoop(str, [i |-> l.i + 1, a |-> createStateRow(str, l.i, l.a)])

createStateRow_swap(str, i, acc) ==
  [acc EXCEPT ![i][0] = GroupWord(str, i, 0),
              ![i][1] = GroupWord(str, i, 1),
              ![i][2] = GroupWord(str, i, 2),
              ![i][3] = GroupWord(str, i, 3),
              ![i][4] = GroupWord(str, i, 4)]

RECURSIVE createStateLoop_swap(_, _)
createStateLoop_swap(str, l) ==
  IF l.i >= 5 THEN l.a
  ELSE createStateLoop_swap(str,
         [i |-> l.i + 1, a |-> createStateRow_swap(str, l.i, l.a)])

\* mutant of createState: the lane is stored at a[i][j]
createState_swap(str) == createStateLoop_swap(str, [i |-> 0, a |-> ZeroArray])

createState(str) == createStateLoop(str, [i |-> 0, a |-> ZeroArray])

\* the inner loop (j = 0..4) for one i: s += wordToString(a[j][i])
createStringRow(st, i, str) ==
  str \o wordToString(st[0][i]) \o wordToString(st[1][i]) \o wordToString(st[2][i])
      \o wordToString(st[3][i]) \o wordToString(st[4][i])

RECURSIVE createStringLoop(_, _)
createStringLoop(st, l) ==
  IF l.i >= 5 THEN l.s
  ELSE createStringLoop(st, [i |-> l.i + 1, s |-> createStringRow(st, l.i, l.s)])

createStringRow_swap(st, i, str) ==
  str \o wordToString(st[i][0]) \o wordToString(st[i][1]) \o wordToString(st[i][2])
      \o wordToString(st[i][3]) \o wordToString(st[i][4])

RECURSIVE createStringLoop_swap(_, _)
createStringLoop_swap(st, l) ==
  IF l.i >= 5 THEN l.s
  ELSE createStringLoop_swap(st,
         [i |-> l.i + 1, s |-> createStringRow_swap(st, l.i, l.s)])

\* mutant of createString: the lane is read from a[i][j]
createString_swap(st) == createStringLoop_swap(st, [i |-> 0, s |-> <<>>])

createString(st) == createStringLoop(st, [i |-> 0, s |-> <<>>])

\* ------------------------------------------------- completion records
Ok(x) == [err |-> "none", val |-> x]

Throw(e) == [err |-> e, val |-> <<>>]

Undefined == [defined |-> FALSE, val |-> <<>>]

\* ------------------------------------------------ coordinate mangling
mangledRow(i) == (4 - i + 3) % 5

mangledColumn(j) == (j + 3) % 5

\* currentState[y][x]: reading a property of undefined throws a TypeError
getMangledState(i, j) ==
  LET x == mangledColumn(j)
      y == mangledRow(i)
  IN  IF ~currentState.defined THEN Throw("TypeError")
      ELSE Ok(currentState.val[y][x])

\* getMangledState(i), as ro calls it: j is undefined, x is NaN, and
\* currentState[y][NaN] is undefined
getMangledState1(i) ==
  LET y == mangledRow(i)
  IN  IF ~currentState.defined THEN Throw("TypeError")
      ELSE Ok(Undefined)

\* ------------------------------------------------------------- mod
\* m % n of JavaScript for n > 0: the result has the sign of m
jsRem(m, n) == IF m >= 0 THEN m % n ELSE -((-m) % n)

mod(m, n) == IF m >= 0 THEN jsRem(m, n) ELSE n + jsRem(m, n)

\* ------------------------------------------------------- rotations
\* the identifiers that resolve inside the module: the globals of the
\* language and the module's own declarations
Globals == {"BigInt", "String", "Number"}

ModuleBindings ==
  {"createState", "createString", "stringToWord", "wordToString",
   "currentState", "getMangledState", "theta", "ro_offsets", "ro",
   "mangledRow", "mangledColumn", "mod", "rot1", "rot"}

\* an identifier that does not resolve throws a ReferenceError, when read
\* and (the module is strict code) when assigned to
Resolves(name, locals) == name \in (Globals \cup ModuleBindings \cup locals)

\* BigInt('0x8000000000000000')
Msb == BigInt(<<0, 0, 0, 0, 0, 0, 0, 128>>)

\* x && y: 0 and 0n are falsy
JsAnd(x, y) == IF x.v = <<>> THEN x ELSE y

RECURSIVE Dbl(_, _)
Dbl(q, carry) ==
  IF q = <<>> THEN (IF carry = 0 THEN <<>> ELSE <<carry>>)
  ELSE <<(2 * q[1] + carry) % 256>> \o Dbl(Tail(q), (2 * q[1] + carry) \div 256)

\* n << BigInt(1): a BigInt has no width, no bit is dropped
Shl1(n) == BigInt(Dbl(n.v, 0))

rot1(n) ==
  LET msb == JsAnd(n, Msb)
  IN  IF ~Resolves("Bigint", {"n", "msb", "ans"}) THEN Throw("ReferenceError")
      ELSE LET ans == Shl1(n)
           IN  IF msb.v # <<>> THEN Ok(BigOr(ans, BigInt(<<1>>))) ELSE Ok(ans)

RECURSIVE rotLoop(_, _)
rotLoop(b, l) ==
  IF l.i >= b THEN Ok(l.ans)
  ELSE LET r == rot1(l.ans)
       IN  IF r.err # "none" THEN r ELSE rotLoop(b, [i |-> l.i + 1, ans |-> r.val])

rot(n, b) ==
  IF ~Resolves("ans", {"n", "b", "i"}) THEN Throw("ReferenceError")
  ELSE rotLoop(b, [i |-> 0, ans |-> n])

\* ----------------------------------------------------------- theta
\* c[x] ^= getMangledState(x, y) with c[x] the Number 0: a BigInt operand
\* throws a TypeError; d[0] then needs rot1
theta ==
  LET g == getMangledState(0, 0)
  IN  IF g.err # "none" THEN g
      ELSE IF \E x, y \in 0..4 : currentState.val[x][y].t = "bigint"
           THEN Throw("TypeError")
      ELSE LET r == rot1(Num0)
           IN  IF r.err # "none" THEN r ELSE Throw("TypeError")

\* ------------------------------------------------------------- rho
RoOffsetsTable_mod64 ==
  [r \in 0..4 |-> [c \in 0..4 |->
     << <<153, 231,   3,  10, 171>>,
        << 55, 276,  36, 300,   6>>,
        << 28,  91,   0,   1, 190>>,
        <<120,  78, 210,  66, 253>>,
        << 21, 136, 105,  45,  15>> >>[r + 1][c + 1] % 64]]

RoOffsetsTable ==
  [r \in 0..4 |-> [c \in 0..4 |->
     << <<153, 231,   3,  10, 171>>,
        << 55, 276,  36, 300,   6>>,
        << 28,  91,   0,   1, 190>>,
        <<120,  78, 210,  66, 253>>,
        << 21, 136, 105,  45,  15>> >>[r + 1][c + 1]]]

\* the first argument of rot, getMangledState(i)(j), is evaluated first:
\* it throws, or its value, which is no function, is called
ro ==
  LET g == getMangledState1(0)
  IN  IF g.err # "none" THEN g ELSE Throw("TypeError")

\* ------------------------------------------------------------ inputs
PokeBytes == {0, 255}

\* the test's buffer for k = 0 (lane c holds eight times the character
\* 0x41 + c); for k > 0 the bytes of a lane differ from one another
BaseByte(k, p) == (65 + (p \div 8) + k * (p % 8)) % 256

Buffer(k, p, b) == [q \in 1..200 |-> IF q - 1 = p THEN b ELSE BaseByte(k, q - 1)]

BaseBuffer(k) == [q \in 1..200 |-> BaseByte(k, q - 1)]

Buffers == {Buffer(k, p, b) : k \in 0..MaxStride, p \in 0..199, b \in PokeBytes}

\* 8-character strings: 'ABCDEFGH' for k = 1, and one character replaced
WordString(k, p, b) == [q \in 1..8 |-> IF q - 1 = p THEN b ELSE BaseByte(k, q - 1)]

WordStrings ==
  {WordString(k, p, b) : k \in 0..MaxStride, p \in 0..7, b \in PokeBytes}
    \cup {WordString(k, 8, 0) : k \in 0..MaxStride}

\* BigInts of 0..2^64-1: 0, and numbers of 1..8 digits
WordOf(k, len, top) ==
  BigInt([q \in 1..len |-> IF q = len THEN top ELSE (37 * k * q) % 256])

Words ==
  {WordOf(k, len, top) : k \in 0..MaxStride, len \in 1..8, top \in {1, 128, 255}}
    \cup {BigInt(<<>>), BigInt(<<72, 71, 70, 69, 68, 67, 66, 65>>)}

NotMade == [made |-> FALSE, val |-> <<>>]

Made(x) == [made |-> TRUE, val |-> x]

NoCall == [fn |-> "none", arg |-> <<>>, err |-> "none", ret |-> <<>>]

Called(f, x, r) == [fn |-> f, arg |-> x, err |-> r.err, ret |-> r.val]

\* --------------------------------------------------- the codec's run
Init ==
  /\ s \in Buffers
  /\ a = NotMade
  /\ newS = NotMade
  /\ call = NoCall
  /\ currentState = Undefined
  /\ ro_offsets = RoOffsetsTable

CallCreateState ==
  /\ a' = Made(createState(s))
  /\ UNCHANGED <<s, newS, call, currentState, ro_offsets>>

CallCreateString ==
  /\ a.made
  /\ newS' = Made(createString(a.val))
  /\ UNCHANGED <<s, a, call, currentState, ro_offsets>>

Next == CallCreateState \/ CallCreateString

Spec == Init /\ [][Next]_vars

\* ------------------------------------- calls of the other functions
InitCalls ==
  /\ s = BaseBuffer(0)
  /\ a = NotMade
  /\ newS = NotMade
  /\ call = NoCall
  /\ currentState = Undefined
  /\ ro_offsets = RoOffsetsTable

CallStringToWord ==
  /\ \E g \in WordStrings : call' = Called("stringToWord", g, Ok(stringToWord(g)))
  /\ UNCHANGED <<s, a, newS, currentState, ro_offsets>>

CallWordToString ==
  /\ \E n \in Words : call' = Called("wordToString", n, Ok(wordToString(n)))
  /\ UNCHANGED <<s, a, newS, currentState, ro_offsets>>

CallMod ==
  /\ \E m \in (-MaxM)..MaxM, n \in 1..MaxN :
       call' = Called("mod", <<m, n>>, Ok(mod(m, n)))
  /\ UNCHANGED <<s, a, newS, currentState, ro_offsets>>

CallRot1 ==
  /\ \E n \in Words : call' = Called("rot1", n, rot1(n))
  /\ UNCHANGED <<s, a, newS, currentState, ro_offsets>>

CallRot ==
  /\ \E n \in Words, b \in 0..MaxRot : call' = Called("rot", <<n, b>>, rot(n, b))
  /\ UNCHANGED <<s, a, newS, currentState, ro_offsets>>

CallTheta ==
  /\ call' = Called("theta", <<>>, theta)
  /\ UNCHANGED <<s, a, newS, currentState, ro_offsets>>

CallRo ==
  /\ call' = Called("ro", <<>>, ro)
  /\ UNCHANGED <<s, a, newS, currentState, ro_offsets>>

NextCalls ==
  \/ CallStringToWord
  \/ CallWordToString
  \/ CallMod
  \/ CallRot1
  \/ CallRot
  \/ CallTheta
  \/ CallRo

SpecCalls == InitCalls /\ [][NextCalls]_vars

\* ------------------------------------------- what the claims speak of
\* the 8 characters of the buffer that the codec's lane (x, y) occupies
LaneOf(str, x, y) == slice(str, 8 * (5 * y + x), 8 * (5 * y + x) + 8)

RECURSIVE ByteXor(_, _)
ByteXor(p, q) ==
  IF p = 0 THEN q
  ELSE IF q = 0 THEN p
  ELSE (IF (p % 2) # (q % 2) THEN 1 ELSE 0) + 2 * ByteXor(p \div 2, q \div 2)

LaneXor(x, y) ==
  BigInt(Norm([k \in 1..8 |-> ByteXor(LimbAt(x, k - 1), LimbAt(y, k - 1))]))

\* the circular left rotation by one place of a 64-bit lane:
\* ((2 * n) mod 2^64) + (n div 2^63)
RotateLeft1(n) ==
  LET top == LimbAt(n, 7) \div 128
      d   == Dbl([k \in 1..8 |-> LimbAt(n, k - 1)], top)
  IN  BigInt(Norm(SubSeq(d, 1, 8)))

ColumnParity(st, x) ==
  LaneXor(LaneXor(LaneXor(st[x][0], st[x][1]), LaneXor(st[x][2], st[x][3])), st[x][4])

ThetaD(st, x) ==
  LaneXor(ColumnParity(st, (x + 4) % 5), RotateLeft1(ColumnParity(st, (x + 1) % 5)))

\* C1: for every 200-character string s with character codes in 0..255,
\* createString(createState(s)) returns exactly s.
C1_RoundTrip == newS.made => newS.val = s

\* C1 witness: createString has returned for a buffer that is not the
\* test's, one with a byte 0xFF in it.
C1_Witness ==
  /\ newS.made
  /\ s # BaseBuffer(0)
  /\ \E q \in 1..200 : s[q] = 255

\* C2: every lane createState(s)[x][y] is assigned, and is built from
\* exactly the 8 bytes s[8(5y+x)] .. s[8(5y+x)+7]: it is the word of those
\* bytes, it is the same for another buffer with the same 8 bytes, and
\* each 8-byte group goes to exactly one lane.
C2_LanePlacement ==
  a.made =>
    /\ \A x, y \in 0..4 : a.val[x][y].t = "bigint"
    /\ \A x, y \in 0..4 : a.val[x][y] = stringToWord(LaneOf(s, x, y))
    /\ \A k \in 0..MaxStride :
         LET other == createState(BaseBuffer(k))
         IN  \A x, y \in 0..4 :
               LaneOf(BaseBuffer(k), x, y) = LaneOf(s, x, y)
                 => other[x][y] = a.val[x][y]
    /\ \A g \in 0..24 :
         Cardinality({xy \in (0..4) \X (0..4) : 5 * xy[2] + xy[1] = g}) = 1

\* C2 witness: createState has returned for a buffer whose lane (4, 1),
\* bytes 72..79, holds a replaced byte.
C2_Witness ==
  /\ a.made
  /\ \E q \in 73..80 : s[q] # BaseByte(0, q - 1) /\ s[q] # BaseByte(1, q - 1)
  /\ a.val[4][1] # createState(BaseBuffer(0))[4][1]

\* C3: byte order inside a lane is little-endian: byte i of the 8-byte
\* group that createState places into a lane holds bits [8i, 8i+8) of the
\* lane, and wordToString emits the bytes in that same order.
C3_LittleEndianLanes ==
  a.made =>
    \A x, y \in 0..4 :
      /\ \A i \in 0..7 : LimbAt(a.val[x][y], i) = charCodeAt(LaneOf(s, x, y), i)
      /\ wordToString(a.val[x][y]) = LaneOf(s, x, y)

\* C4: theta() returns a state a' with a'[x][y] = currentState[x][y] XOR
\* D[x], D[x] = C[(x-1) mod 5] XOR rotateLeft(C[(x+1) mod 5], 1) and C[x]
\* the XOR over y of currentState[x][y], [x][y] indexing as createState.
C4_ThetaStep ==
  call.fn = "theta" =>
    /\ call.err = "none"
    /\ currentState.defined
    /\ \A x, y \in 0..4 :
         call.ret[x][y] = LaneXor(currentState.val[x][y], ThetaD(currentState.val, x))

\* C5: rot1(n) is the circular left rotation by one place of the 64-bit
\* lane n: a lane again, equal to ((2n) mod 2^64) + (n div 2^63).
C5_Rot1IsRotation ==
  call.fn = "rot1" =>
    /\ call.err = "none"
    /\ Len(call.ret.v) <= 8
    /\ call.ret = RotateLeft1(call.arg)

\* C6: rot(x, 0) returns x unchanged for every lane x.
C6_RotZeroIdentity ==
  (call.fn = "rot" /\ call.arg[2] = 0) =>
    /\ call.err = "none"
    /\ call.ret = call.arg[1]

\* C7: every entry of ro_offsets is a rotation amount in 0..63.
C7_OffsetsBelow64 == \A r, c \in 0..4 : ro_offsets[r][c] \in 0..63

\* C7, amended: every entry of ro_offsets is an integer in 0..300, and 14
\* of the 25 entries are 64 or more.
C7_OffsetsUnreduced ==
  /\ \A r, c \in 0..4 : ro_offsets[r][c] \in 0..300
  /\ Cardinality({rc \in (0..4) \X (0..4) : ro_offsets[rc[1]][rc[2]] >= 64}) = 14

\* C7 witness: ro() has been called with the table holding the offset 300.
C7_Witness == call.fn = "ro" /\ ro_offsets[1][3] = 300

\* C8: ro() leaves lane (0,0) unchanged: the offset it looks up for the
\* lane it writes at [0][0] is 0, and that lane of its result equals
\* currentState[0][0].
C8_RhoKeepsLane00 ==
  call.fn = "ro" =>
    /\ call.err = "none"
    /\ ro_offsets[0][0] = 0
    /\ currentState.defined
    /\ call.ret[0][0] = currentState.val[0][0]

\* C9: for every integer m and every positive n, mod(m, n) is in 0..n-1
\* and congruent to m modulo n.
C9_ModIsRemainder ==
  call.fn = "mod" =>
    /\ call.ret \in 0..(call.arg[2] - 1)
    /\ (call.ret - call.arg[1]) % call.arg[2] = 0

\* C10: stringToWord reads its first character as the most significant
\* byte (digit 7-i of the word is the code of s[i], 'ABCDEFGH' gives
\* 0x4142434445464748), and wordToString is its inverse on 0..2^64-1.
C10_WordBigEndian ==
  /\ call.fn = "stringToWord" =>
       /\ call.ret.t = "bigint"
       /\ Len(call.ret.v) <= 8
       /\ \A i \in 0..7 : LimbAt(call.ret, 7 - i) = charCodeAt(call.arg, i)
       /\ wordToString(call.ret) = call.arg
  /\ call.fn = "wordToString" =>
       /\ Len(call.ret) = 8
       /\ \A i \in 0..7 : charCodeAt(call.ret, i) = LimbAt(call.arg, 7 - i)
       /\ stringToWord(call.ret) = call.arg

\* C10 witness: stringToWord('ABCDEFGH') has returned 0x4142434445464748.
C10_Witness ==
  /\ call.fn = "stringToWord"
  /\ call.arg = <<65, 66, 67, 68, 69, 70, 71, 72>>
  /\ call.ret = BigInt(<<72, 71, 70, 69, 68, 67, 66, 65>>)

====
